---- MODULE Spec2Model ----
(***************************************************************************)
(* Model of leptos_i18n_macro/src/load_locales/parsed_value.rs:            *)
(* the locale-string parser (ParsedValue::new and its scanners), the key   *)
(* collector (get_keys) and the plural visitor (visit_map).                *)
(*                                                                         *)
(* A Rust &str is modelled as the sequence of its UTF-8 bytes, each byte a *)
(* one-character TLA+ string; the two bytes of U+00A0 (a White_Space       *)
(* character that str::trim removes) are written "C2" and "A0".  Byte      *)
(* offsets are the 0-based offsets of the Rust code.                       *)
(***************************************************************************)
EXTENDS Integers, Sequences, FiniteSets, TLC

VARIABLES
    value,      \* the &str handed to ParsedValue::new
    pc,         \* position inside new / find_valid_component / find_closing_tag
    skip_sum,   \* find_valid_component: the loop's cursor
    cand,       \* find_valid_component: what find_opening_tag returned
    iter,       \* find_closing_tag: the items the iterator has still to yield
    depth,      \* find_closing_tag: depth
    indices,    \* find_closing_tag: indices
    comp,       \* what find_valid_component returned
    result,     \* what ParsedValue::new returned
    seed,       \* the ParsedValueSeed the mapping is deserialized with
    map,        \* the mapping handed to visit_map
    pstack,     \* the visit_map calls in progress, innermost first
    ppc,        \* position inside visit_map / Plurals::from_serde_map
    outcome,    \* what the outermost visit_map returned
    tree,       \* the ParsedValue get_keys is called on
    kstack,     \* get_keys_inner: what is still to be done, next first
    kpc,        \* position inside get_keys
    keys        \* get_keys: keys

vars == <<value, pc, skip_sum, cand, iter, depth, indices, comp, result,
          seed, map, pstack, ppc, outcome, tree, kstack, kpc, keys>>

parseVars == <<value, pc, skip_sum, cand, iter, depth, indices, comp, result>>
pluralVars == <<seed, map, pstack, ppc, outcome>>
keyVars == <<tree, kstack, kpc, keys>>

(***************************************************************************)
(* Bounds of the model.                                                    *)
(***************************************************************************)
MaxTagTokens == 4
MaxMixTokens == 4
MaxWsTokens == 3
MaxVarTokens == 3
MaxBranches == 3
MaxNesting == 2
MaxNodes == 4

(***************************************************************************)
(* Option<T> and a panic of the thread.                                    *)
(***************************************************************************)
None == [kind |-> "None"]
Some(v) == [kind |-> "Some", val |-> v]
Panic == [kind |-> "Panic"]

(***************************************************************************)
(* &str: slicing, split_once, trim.                                        *)
(***************************************************************************)
\* str::is_char_boundary: "A0" is the only continuation byte of the model.
IsCharBoundary(s, i) ==
    \/ i = 0
    \/ i = Len(s)
    \/ i > 0 /\ i < Len(s) /\ s[i + 1] # "A0"

\* &s[a..]
SliceFrom(s, a) == SubSeq(s, a + 1, Len(s))

\* &s[..b]
SliceTo(s, b) == SubSeq(s, 1, b)

\* The least offset i (0-based) at which pat occurs in s, or -1.
RECURSIVE FindFrom(_, _, _)
FindFrom(s, pat, i) ==
    IF i + Len(pat) > Len(s) THEN -1
    ELSE IF SubSeq(s, i + 1, i + Len(pat)) = pat THEN i
    ELSE FindFrom(s, pat, i + 1)

\* str::split_once
SplitOnce(s, pat) ==
    LET i == FindFrom(s, pat, 0) IN
    IF i < 0 THEN None
    ELSE Some([before |-> SliceTo(s, i), after |-> SliceFrom(s, i + Len(pat))])

\* str::trim_start: removes leading White_Space characters, whole characters.
RECURSIVE TrimStart(_)
TrimStart(s) ==
    IF Len(s) >= 1 /\ s[1] = " " THEN TrimStart(SliceFrom(s, 1))
    ELSE IF Len(s) >= 2 /\ s[1] = "C2" /\ s[2] = "A0" THEN TrimStart(SliceFrom(s, 2))
    ELSE s

\* str::trim_end
RECURSIVE TrimEnd(_)
TrimEnd(s) ==
    IF Len(s) >= 1 /\ s[Len(s)] = " " THEN TrimEnd(SliceTo(s, Len(s) - 1))
    ELSE IF Len(s) >= 2 /\ s[Len(s) - 1] = "C2" /\ s[Len(s)] = "A0"
         THEN TrimEnd(SliceTo(s, Len(s) - 2))
    ELSE s

\* str::trim
Trim(s) == TrimEnd(TrimStart(s))

(***************************************************************************)
(* Key::try_new (key.rs): the name parses as one identifier.               *)
(***************************************************************************)
IdentBytes == {"a", "b", "c", "m", "o", "p", "r", "v", "x", "_"}

KeyTryNew(name) ==
    IF name # <<>> /\ \A i \in 1..Len(name) : name[i] \in IdentBytes
    THEN Some(name)
    ELSE None

VarPrefix == <<"v", "a", "r", "_">>
CompPrefix == <<"c", "o", "m", "p", "_">>

(***************************************************************************)
(* enum ParsedValue                                                        *)
(***************************************************************************)
PVString(s) == [kind |-> "String", text |-> s]
PVVariable(k) == [kind |-> "Variable", key |-> k]
PVComponent(k, inner) == [kind |-> "Component", key |-> k, inner |-> inner]
PVBloc(vs) == [kind |-> "Bloc", values |-> vs]
PVPlural(p) == [kind |-> "Plural", plurals |-> p]

(***************************************************************************)
(* find_opening_tag                                                        *)
(***************************************************************************)
\* find_opening_tag with skip taken from the trimmed name.
FindOpeningTagTrimmedSkip(v) ==
    LET s1 == SplitOnce(v, <<"<">>) IN
    IF s1.kind = "None" THEN None
    ELSE LET s2 == SplitOnce(s1.val.after, <<">">>) IN
         IF s2.kind = "None" THEN None
         ELSE Some([before |-> s1.val.before,
                    key    |-> Trim(s2.val.before),
                    after  |-> s2.val.after,
                    skip   |-> Len(s1.val.before) + Len(Trim(s2.val.before)) + 2])

FindOpeningTag(v) ==
    LET s1 == SplitOnce(v, <<"<">>) IN
    IF s1.kind = "None" THEN None
    ELSE LET s2 == SplitOnce(s1.val.after, <<">">>) IN
         IF s2.kind = "None" THEN None
         ELSE Some([before |-> s1.val.before,
                    key    |-> Trim(s2.val.before),
                    after  |-> s2.val.after,
                    skip   |-> Len(s1.val.before) + Len(s2.val.before) + 2])

(***************************************************************************)
(* find_closing_tag                                                        *)
(***************************************************************************)
\* value.match_indices('<').filter_map(..): the items (i, ident), in order.
RECURSIVE ClosingTagIterFrom(_, _)
ClosingTagIterFrom(v, i) ==
    IF i >= Len(v) THEN <<>>
    ELSE IF v[i + 1] # "<" THEN ClosingTagIterFrom(v, i + 1)
    ELSE LET sp == SplitOnce(SliceFrom(v, i + 1), <<">">>) IN
         IF sp.kind = "None" THEN ClosingTagIterFrom(v, i + 1)
         ELSE <<[i |-> i, ident |-> Trim(sp.val.before)]>>
                  \o ClosingTagIterFrom(v, i + 1)

ClosingTagIter(v) == ClosingTagIterFrom(v, 0)

\* ident.strip_prefix('/').map(str::trim_start)
StripClosing(ident) ==
    IF Len(ident) >= 1 /\ ident[1] = "/"
    THEN Some(TrimStart(SliceFrom(ident, 1)))
    ELSE None

\* One iteration of the for loop over the state (indices, depth).
ClosingTagStep(st, item, key) ==
    LET closing == StripClosing(item.ident) IN
    IF closing.kind = "Some" THEN
        IF closing.val # key THEN st
        ELSE IF st.depth = 0
             THEN [st EXCEPT !.indices =
                      Some([start |-> item.i, end |-> item.i + Len(item.ident) + 2])]
             ELSE [st EXCEPT !.depth = st.depth - 1]
    ELSE IF item.ident = key THEN [st EXCEPT !.depth = st.depth + 1]
    ELSE st

\* After the loop: `indices?`, the two slices, the returned triple.
ClosingTagResult(v, key_ident, ind) ==
    IF ind.kind = "None" THEN None
    ELSE IF ~IsCharBoundary(v, ind.val.start) \/ ~IsCharBoundary(v, ind.val.end)
         THEN Panic
    ELSE Some([key     |-> key_ident,
               between |-> SliceTo(v, ind.val.start),
               after   |-> SliceFrom(v, ind.val.end)])

RECURSIVE ClosingTagFold(_, _, _)
ClosingTagFold(st, items, key) ==
    IF items = <<>> THEN st
    ELSE ClosingTagFold(ClosingTagStep(st, Head(items), key), Tail(items), key)

FindClosingTag(v, key) ==
    LET key_ident == KeyTryNew(CompPrefix \o key) IN
    IF key_ident.kind = "None" THEN None
    ELSE LET st == ClosingTagFold([indices |-> None, depth |-> 0],
                                  ClosingTagIter(v), key)
         IN ClosingTagResult(v, key_ident.val, st.indices)

(***************************************************************************)
(* find_valid_component                                                    *)
(***************************************************************************)
\* The break value of the loop.
ValidComponent(v, sum, open, closed) ==
    LET before_len == sum + Len(open.before) IN
    IF ~IsCharBoundary(v, before_len) THEN Panic
    ELSE Some([key     |-> closed.key,
               before  |-> SliceTo(v, before_len),
               between |-> closed.between,
               after   |-> closed.after])

RECURSIVE FindValidComponentLoop(_, _)
FindValidComponentLoop(v, sum) ==
    IF ~IsCharBoundary(v, sum) THEN Panic
    ELSE LET open == FindOpeningTag(SliceFrom(v, sum)) IN
         IF open.kind = "None" THEN None
         ELSE LET closed == FindClosingTag(open.val.after, open.val.key) IN
              IF closed.kind = "Panic" THEN Panic
              ELSE IF closed.kind = "Some"
                   THEN ValidComponent(v, sum, open.val, closed.val)
              ELSE FindValidComponentLoop(v, sum + open.val.skip)

FindValidComponent(v) == FindValidComponentLoop(v, 0)

(***************************************************************************)
(* new, find_component, find_variable                                      *)
(***************************************************************************)
\* ParsedValue::Bloc(vec![before, this, after]); a panic in a recursive call
\* unwinds through the caller.
Bloc3(before, this, after) ==
    IF before.kind = "Panic" \/ this.kind = "Panic" \/ after.kind = "Panic"
    THEN Panic
    ELSE PVBloc(<<before, this, after>>)

\* find_component after find_valid_component has matched, given what the
\* three recursive calls of new returned.
FindComponent(key, before, beetween, after) ==
    Bloc3(before,
          IF beetween.kind = "Panic" THEN Panic ELSE PVComponent(key, beetween),
          after)

\* find_variable with the identifier left untrimmed.
FindVariableSplitUntrimmed(v) ==
    LET s1 == SplitOnce(v, <<"{", "{">>) IN
    IF s1.kind = "None" THEN None
    ELSE LET s2 == SplitOnce(s1.val.after, <<"}", "}">>) IN
         IF s2.kind = "None" THEN None
         ELSE LET ident == KeyTryNew(VarPrefix \o s2.val.before) IN
              IF ident.kind = "None" THEN None
              ELSE Some([before |-> s1.val.before,
                         ident  |-> ident.val,
                         after  |-> s2.val.after])

\* find_variable up to the recursive calls: the two split_once and the key.
FindVariableSplit(v) ==
    LET s1 == SplitOnce(v, <<"{", "{">>) IN
    IF s1.kind = "None" THEN None
    ELSE LET s2 == SplitOnce(s1.val.after, <<"}", "}">>) IN
         IF s2.kind = "None" THEN None
         ELSE LET ident == KeyTryNew(VarPrefix \o Trim(s2.val.before)) IN
              IF ident.kind = "None" THEN None
              ELSE Some([before |-> s1.val.before,
                         ident  |-> ident.val,
                         after  |-> s2.val.after])

\* find_variable with the Variable pushed last.
FindVariableLast(ident, before, after) ==
    Bloc3(before, after, PVVariable(ident))

\* find_variable after the key is built, given what the two recursive calls
\* of new returned.
FindVariable(ident, before, after) ==
    Bloc3(before, PVVariable(ident), after)

RECURSIVE New(_)
New(v) ==
    LET c == FindValidComponent(v) IN
    IF c.kind = "Panic" THEN Panic
    ELSE IF c.kind = "Some"
         THEN FindComponent(c.val.key, New(c.val.before), New(c.val.between),
                            New(c.val.after))
    ELSE LET var == FindVariableSplit(v) IN
         IF var.kind = "Some"
         THEN FindVariable(var.val.ident, New(var.val.before), New(var.val.after))
         ELSE PVString(v)

(***************************************************************************)
(* The strings the parser is run on: every concatenation of at most        *)
(* Max..Tokens tokens of each family.                                      *)
(***************************************************************************)
RECURSIVE TokenStrings(_, _)
TokenStrings(tokens, n) ==
    IF n = 0 THEN {<<>>}
    ELSE LET shorter == TokenStrings(tokens, n - 1) IN
         shorter \cup {t \o s : t \in tokens, s \in shorter}

\* <a>, </a>, <b>, </b>, x
TagTokens ==
    {<<"<", "a", ">">>, <<"<", "/", "a", ">">>,
     <<"<", "b", ">">>, <<"<", "/", "b", ">">>, <<"x">>}

\* stray brackets and slashes around <a> and </a>
MixTokens ==
    {<<"<">>, <<">">>, <<"/">>, <<"a">>, <<" ">>,
     <<"<", "a", ">">>, <<"<", "/", "a", ">">>}

\* tags spelled with whitespace inside the angle brackets
WsTokens ==
    {<<"<", "a", ">">>, <<"<", " ", "a", " ", ">">>,
     <<"<", "/", "a", ">">>, <<"<", "/", " ", "a", ">">>,
     <<"<", "/", "a", " ", ">">>, <<"<", " ", "/", "a", ">">>,
     <<"<", "/", "a", "C2", "A0", ">">>, <<"x">>}

\* {{a}}, {{ a }}, {{a a}}, {{, }}, a, a blank, <a>, </a>
VarTokens ==
    {<<"{", "{", "a", "}", "}">>, <<"{", "{", " ", "a", " ", "}", "}">>,
     <<"{", "{", "a", " ", "a", "}", "}">>,
     <<"{", "{">>, <<"}", "}">>, <<"a">>, <<" ">>,
     <<"<", "a", ">">>, <<"<", "/", "a", ">">>}

Inputs ==
    TokenStrings(TagTokens, MaxTagTokens) \cup TokenStrings(MixTokens, MaxMixTokens)
        \cup TokenStrings(WsTokens, MaxWsTokens)
        \cup TokenStrings(VarTokens, MaxVarTokens)

(***************************************************************************)
(* ParsedValue::new(value), step by step at the top level; the recursive   *)
(* calls on before, inner and after are the operators above.               *)
(***************************************************************************)
PluralIdle ==
    /\ seed = [in_plural |-> FALSE, namespace |-> None]
    /\ map = <<>>
    /\ pstack = <<>>
    /\ ppc = "idle"
    /\ outcome = None

KeysIdle ==
    /\ tree = PVString(<<>>)
    /\ kstack = <<>>
    /\ kpc = "idle"
    /\ keys = None

ParseIdle ==
    /\ value = <<>>
    /\ pc = "idle"
    /\ skip_sum = 0
    /\ cand = None
    /\ iter = <<>>
    /\ depth = 0
    /\ indices = None
    /\ comp = None
    /\ result = None

Init ==
    /\ value \in Inputs
    /\ pc = "new"
    /\ skip_sum = 0
    /\ cand = None
    /\ iter = <<>>
    /\ depth = 0
    /\ indices = None
    /\ comp = None
    /\ result = None
    /\ PluralIdle
    /\ KeysIdle

\* new calls find_component, which calls find_valid_component: skip_sum = 0.
NewEnter ==
    /\ pc = "new"
    /\ pc' = "loop"
    /\ skip_sum' = 0
    /\ UNCHANGED <<value, cand, iter, depth, indices, comp, result>>
    /\ UNCHANGED <<pluralVars, keyVars>>

\* The head of the loop: find_opening_tag(&value[skip_sum..])?
OpeningTag ==
    /\ pc = "loop"
    /\ IF ~IsCharBoundary(value, skip_sum)
       THEN pc' = "panicked" /\ UNCHANGED <<cand, comp>>
       ELSE LET open == FindOpeningTag(SliceFrom(value, skip_sum)) IN
            IF open.kind = "None"
            THEN pc' = "variable" /\ comp' = None /\ UNCHANGED cand
            ELSE pc' = "closing_enter" /\ cand' = open /\ UNCHANGED comp
    /\ UNCHANGED <<value, skip_sum, iter, depth, indices, result>>
    /\ UNCHANGED <<pluralVars, keyVars>>

\* find_closing_tag up to its for loop; on an invalid name it returns None
\* and the caller's else branch moves the cursor.
ClosingEnter ==
    /\ pc = "closing_enter"
    /\ IF KeyTryNew(CompPrefix \o cand.val.key).kind = "None"
       THEN /\ pc' = "loop"
            /\ skip_sum' = skip_sum + cand.val.skip
            /\ UNCHANGED <<iter, depth, indices>>
       ELSE /\ pc' = "closing"
            /\ indices' = None
            /\ depth' = 0
            /\ iter' = ClosingTagIter(cand.val.after)
            /\ UNCHANGED skip_sum
    /\ UNCHANGED <<value, cand, comp, result>>
    /\ UNCHANGED <<pluralVars, keyVars>>

\* One iteration of find_closing_tag's for loop.
ClosingNext ==
    /\ pc = "closing"
    /\ iter # <<>>
    /\ LET st == ClosingTagStep([indices |-> indices, depth |-> depth],
                                Head(iter), cand.val.key)
       IN indices' = st.indices /\ depth' = st.depth
    /\ iter' = Tail(iter)
    /\ UNCHANGED <<value, pc, skip_sum, cand, comp, result>>
    /\ UNCHANGED <<pluralVars, keyVars>>

\* The end of find_closing_tag and what find_valid_component does with it.
ClosingExit ==
    /\ pc = "closing"
    /\ iter = <<>>
    /\ LET closed == ClosingTagResult(cand.val.after,
                                      CompPrefix \o cand.val.key, indices)
       IN IF closed.kind = "Panic"
          THEN pc' = "panicked" /\ UNCHANGED <<skip_sum, comp>>
          ELSE IF closed.kind = "None"
          THEN /\ pc' = "loop"
               /\ skip_sum' = skip_sum + cand.val.skip
               /\ UNCHANGED comp
          ELSE LET found == ValidComponent(value, skip_sum, cand.val, closed.val)
               IN /\ pc' = IF found.kind = "Panic" THEN "panicked" ELSE "component"
                  /\ comp' = found
                  /\ UNCHANGED skip_sum
    /\ UNCHANGED <<value, cand, iter, depth, indices, result>>
    /\ UNCHANGED <<pluralVars, keyVars>>

\* find_component after the match: the three recursive calls and the Bloc.
ComponentFound ==
    /\ pc = "component"
    /\ LET bloc == FindComponent(comp.val.key, New(comp.val.before),
                                 New(comp.val.between), New(comp.val.after)) IN
       IF bloc.kind = "Panic"
       THEN pc' = "panicked" /\ UNCHANGED result
       ELSE pc' = "done" /\ result' = Some(bloc)
    /\ UNCHANGED <<value, skip_sum, cand, iter, depth, indices, comp>>
    /\ UNCHANGED <<pluralVars, keyVars>>

\* new after find_component returned None: find_variable, else the string.
VariableOrString ==
    /\ pc = "variable"
    /\ LET var == FindVariableSplit(value)
           v == IF var.kind = "Some"
                THEN FindVariable(var.val.ident, New(var.val.before),
                                  New(var.val.after))
                ELSE PVString(value) IN
       IF v.kind = "Panic"
       THEN pc' = "panicked" /\ UNCHANGED result
       ELSE pc' = "done" /\ result' = Some(v)
    /\ UNCHANGED <<value, skip_sum, cand, iter, depth, indices, comp>>
    /\ UNCHANGED <<pluralVars, keyVars>>

Next ==
    \/ NewEnter
    \/ OpeningTag
    \/ ClosingEnter
    \/ ClosingNext
    \/ ClosingExit
    \/ ComponentFound
    \/ VariableOrString

Spec == Init /\ [][Next]_vars

(***************************************************************************)
(* Properties of the parser.                                               *)
(***************************************************************************)
\* Whether byte b occurs in s at an offset >= from (0-based).
HasByteFrom(s, b, from) == \E i \in from..(Len(s) - 1) : s[i + 1] = b

\* The least offset >= from at which byte b occurs in s.
FirstByteFrom(s, b, from) ==
    CHOOSE i \in from..(Len(s) - 1) :
        s[i + 1] = b /\ \A j \in from..(i - 1) : s[j + 1] # b

\* The direct children of a node.
Children(t) ==
    CASE t.kind = "Component" -> <<t.inner>>
      [] t.kind = "Bloc" -> t.values
      [] t.kind = "Plural" ->
            [i \in 1..Len(t.plurals.branches) |-> t.plurals.branches[i].value]
      [] OTHER -> <<>>

\* Every node of the trees ts.
RECURSIVE NodesOf(_)
NodesOf(ts) ==
    IF ts = <<>> THEN {}
    ELSE {Head(ts)} \cup NodesOf(Children(Head(ts)) \o Tail(ts))

\* The step machine and the recursive definition agree on the result.
StepsAgreeWithNew ==
    /\ pc = "done" => result = Some(New(value))
    /\ pc = "panicked" => New(value) = Panic

\* C1: in find_closing_tag the closing tag chosen is the first one named n
\* that is seen while depth is 0: once indices is set, no later closing tag
\* replaces it.
C1_FirstCloserAtDepthZero ==
    [][(pc = "closing" /\ indices.kind = "Some") => indices' = indices]_vars

\* C2: whenever find_valid_component reports a match, value is exactly
\* before ++ opening tag ++ inner ++ closing tag ++ after, each tag running
\* from its '<' to the first '>' after it.
C2_PiecesPartitionInput ==
    comp.kind = "Some" =>
        LET b == Len(comp.val.before) IN
        /\ comp.val.before = SliceTo(value, b)
        /\ b < Len(value) /\ value[b + 1] = "<"
        /\ HasByteFrom(value, ">", b)
        /\ LET o == FirstByteFrom(value, ">", b)
               c == o + 1 + Len(comp.val.between)
           IN /\ SubSeq(value, o + 2, c) = comp.val.between
              /\ c < Len(value) /\ value[c + 1] = "<"
              /\ HasByteFrom(value, ">", c)
              /\ comp.val.after = SliceFrom(value, FirstByteFrom(value, ">", c) + 1)

\* C3 as claimed: no Bloc of the tree new returns has a Bloc among its
\* direct elements.
C3_NoBlocInsideBloc ==
    pc = "done" =>
        \A n \in NodesOf(<<result.val>>) :
            n.kind = "Bloc" =>
                \A i \in 1..Len(n.values) : n.values[i].kind # "Bloc"

\* C3 as amended: every Bloc of the tree new returns has exactly three
\* direct elements; the middle one is a Variable or a Component, never a
\* Bloc; the first and the last are a String or a Bloc.
C3_BlocShape ==
    pc = "done" =>
        \A n \in NodesOf(<<result.val>>) :
            n.kind = "Bloc" =>
                /\ Len(n.values) = 3
                /\ n.values[2].kind \in {"Variable", "Component"}
                /\ n.values[1].kind \in {"String", "Bloc"}
                /\ n.values[3].kind \in {"String", "Bloc"}

\* A Bloc whose last element is a Bloc has been returned.
C3_Witness ==
    /\ pc = "done"
    /\ result.val.kind = "Bloc"
    /\ result.val.values[3].kind = "Bloc"

\* C4: a rejected candidate moves the cursor to just after that candidate's
\* '>'; a match's before is the whole prefix of value up to the '<' of the
\* first candidate at or after the cursor, so that every rejected candidate
\* lies inside it; no component is reported exactly when no candidate is
\* left after the cursor.
C4_Step ==
    /\ (pc \in {"closing_enter", "closing"} /\ pc' = "loop") =>
            /\ HasByteFrom(value, "<", skip_sum)
            /\ LET lt == FirstByteFrom(value, "<", skip_sum) IN
               /\ HasByteFrom(value, ">", lt)
               /\ skip_sum' = FirstByteFrom(value, ">", lt) + 1
    /\ (pc = "closing" /\ pc' = "component") =>
            /\ skip_sum' = skip_sum
            /\ HasByteFrom(value, "<", skip_sum)
            /\ comp'.kind = "Some"
            /\ comp'.val.before =
                   SliceTo(value, FirstByteFrom(value, "<", skip_sum))
    /\ (pc = "loop" /\ pc' = "variable") =>
            /\ comp' = None
            /\ ~\E i \in skip_sum..(Len(value) - 1) :
                    value[i + 1] = "<" /\ HasByteFrom(value, ">", i)

C4_UnmatchedTagsSkipped == [][C4_Step]_vars

\* The unclosed <b> has been rejected, a later candidate has matched, and <b>
\* is part of before.
C4_Witness ==
    /\ pc = "component"
    /\ skip_sum > 0
    /\ Len(comp.val.before) >= skip_sum
    /\ SubSeq(comp.val.before, 1, 3) = <<"<", "b", ">">>

\* C5: when no component is found, new looks at the first {{ and the first
\* }} after it only: with a valid identifier between them the result is
\* Bloc([new(before), Variable(var_<trimmed ident>), new(after)]), otherwise
\* it is String(value), whatever follows.
HasPatternFrom(s, pat, from) ==
    \E i \in from..(Len(s) - Len(pat)) : SubSeq(s, i + 1, i + Len(pat)) = pat

FirstPatternFrom(s, pat, from) ==
    CHOOSE i \in from..(Len(s) - Len(pat)) :
        /\ SubSeq(s, i + 1, i + Len(pat)) = pat
        /\ \A j \in from..(i - 1) : SubSeq(s, j + 1, j + Len(pat)) # pat

IsIdentifier(name) == \A i \in 1..Len(name) : name[i] \in IdentBytes

C5_Expected(s) ==
    IF ~HasPatternFrom(s, <<"{", "{">>, 0) THEN PVString(s)
    ELSE LET o == FirstPatternFrom(s, <<"{", "{">>, 0) IN
         IF ~HasPatternFrom(s, <<"}", "}">>, o + 2) THEN PVString(s)
         ELSE LET c == FirstPatternFrom(s, <<"}", "}">>, o + 2)
                  ident == Trim(SubSeq(s, o + 3, c))
              IN IF ~IsIdentifier(ident) THEN PVString(s)
                 ELSE PVBloc(<<New(SliceTo(s, o)),
                               PVVariable(VarPrefix \o ident),
                               New(SliceFrom(s, c + 2))>>)

C5_FirstPairOnly ==
    (pc = "done" /\ comp.kind = "None") => result.val = C5_Expected(value)

\* The first {{..}} pair holds no identifier, a pair after it does, and the
\* whole input has been returned as one String.
C5_Witness ==
    /\ pc = "done"
    /\ comp.kind = "None"
    /\ result.val = PVString(value)
    /\ HasPatternFrom(value, <<"{", "{">>, 0)
    /\ HasPatternFrom(value, <<"}", "}">>, FirstPatternFrom(value, <<"{", "{">>, 0) + 2)
    /\ \E k \in 1..Len(value) :
          /\ k >= FirstPatternFrom(value, <<"}", "}">>,
                                   FirstPatternFrom(value, <<"{", "{">>, 0) + 2) + 2
          /\ FindVariableSplit(SliceFrom(value, k)).kind = "Some"

\* C10: new returns for every input: no slice panics, the cursor stays inside
\* value, the indices find_closing_tag computes are offsets of characters of
\* its input, and each recursive call is on a strictly shorter string.
C10_TotalAndInBounds ==
    /\ pc # "panicked"
    /\ skip_sum <= Len(value)
    /\ (pc = "closing" /\ indices.kind = "Some") =>
            /\ indices.val.end <= Len(cand.val.after)
            /\ IsCharBoundary(cand.val.after, indices.val.end)
    /\ comp.kind = "Some" =>
            /\ Len(comp.val.before) < Len(value)
            /\ Len(comp.val.between) < Len(value)
            /\ Len(comp.val.after) < Len(value)

(***************************************************************************)
(* Plural mappings.  A mapping is the ordered list of its entries           *)
(* [sel, val]: sel is a plural-form selector or the fallback marker, val a  *)
(* string ([kind |-> "Str", text]) or again a mapping ([kind |-> "Map",     *)
(* entries]).                                                               *)
(***************************************************************************)
Fallback == "_"
Selectors == {"one", "few", "many", Fallback}

\* PluralType (plural.rs): the selectors of each category type.
PluralTypes == {"one_many", "one_few_many"}

TypeSelectors(t) ==
    IF t = "one_many" THEN {"one", "many"} ELSE {"one", "few", "many"}

\* The plural type from_serde_map infers from the selectors (plural.rs).
InferType(branches) ==
    IF \E i \in 1..Len(branches) : branches[i].sel = "few"
    THEN "one_few_many"
    ELSE "one_many"

\* Plurals::check_deserialization (plural.rs):
\* (invalid_fallback, fallback_count, should_have_fallback).
CheckDeserialization(branches) ==
    [invalid_fallback |->
        \E i \in 1..(Len(branches) - 1) : branches[i].sel = Fallback,
     fallback_count |->
        Cardinality({i \in 1..Len(branches) : branches[i].sel = Fallback}),
     should_have_fallback |->
        ~(TypeSelectors(InferType(branches))
              \subseteq {branches[i].sel : i \in 1..Len(branches)})]

\* The Plurals value from_serde_map builds from the deserialized branches.
PluralsOf(branches) == [type |-> InferType(branches), branches |-> branches]

\* Plurals::get_type (plural.rs)
GetType(p) == p.type

Locale == "en"
LocaleKey == "key"

NestedText == "nested plurals are not allowed"
LastPositionText == "fallback is only allowed in last position"
MultipleText == "multiple fallbacks are not allowed"
RequiredText == "a fallback is required"

Ok(v) == [kind |-> "Ok", val |-> v]

\* serde::de::Error::custom(msg): "in locale .. [at namespace ..] at key ..:
\* [for plural type ..] <text>".
Err(self, text, plural_type) ==
    [kind |-> "Err", locale |-> Locale, namespace |-> self.namespace,
     key |-> LocaleKey, plural_type |-> plural_type, text |-> text]

\* The nested-plural test without the write: self.in_plural is only read.
ReplaceInPluralUnset(self) == self

\* std::mem::replace(&mut self.in_plural, true): self afterwards.
ReplaceInPlural(self) == [self EXCEPT !.in_plural = TRUE]

\* visit_map without the test for a required fallback.
VisitMapCheckNoRequired(self, branches) ==
    LET c == CheckDeserialization(branches) IN
    IF c.invalid_fallback THEN Err(self, LastPositionText, None)
    ELSE IF c.fallback_count > 1 THEN Err(self, MultipleText, None)
    ELSE Ok(PVPlural(PluralsOf(branches)))

\* visit_map after from_serde_map has returned the branches.
VisitMapCheck(self, branches) ==
    LET c == CheckDeserialization(branches) IN
    IF c.invalid_fallback THEN Err(self, LastPositionText, None)
    ELSE IF c.fallback_count > 1 THEN Err(self, MultipleText, None)
    ELSE IF c.fallback_count = 0 /\ c.should_have_fallback
         THEN Err(self, RequiredText, Some(GetType(PluralsOf(branches))))
    ELSE Ok(PVPlural(PluralsOf(branches)))

\* The mappings the visitor is run on.
StrValue(text) == [kind |-> "Str", text |-> text]
MapValue(entries) == [kind |-> "Map", entries |-> entries]

RECURSIVE Nest(_)
Nest(d) ==
    IF d <= 1 THEN MapValue(<<[sel |-> "one", val |-> StrValue(<<"x">>)]>>)
    ELSE MapValue(<<[sel |-> "one", val |-> Nest(d - 1)]>>)

BranchValues == {StrValue(<<"x">>)} \cup {Nest(d) : d \in 1..MaxNesting}

Entries == [sel : Selectors, val : BranchValues]

RECURSIVE Mappings(_)
Mappings(n) ==
    IF n = 0 THEN {<<>>}
    ELSE LET shorter == Mappings(n - 1) IN
         shorter \cup {<<e>> \o m : e \in Entries, m \in shorter}

Seeds ==
    {[in_plural |-> FALSE, namespace |-> None],
     [in_plural |-> FALSE, namespace |-> Some("ns")],
     [in_plural |-> TRUE, namespace |-> None]}

InitPlural ==
    /\ seed \in Seeds
    /\ map \in Mappings(MaxBranches)
    /\ pstack = <<[self |-> seed, map |-> map, idx |-> 1, branches |-> <<>>]>>
    /\ ppc = "visit"
    /\ outcome = None
    /\ ParseIdle
    /\ KeysIdle

\* visit_map: the nested-plural test. An Err returns through every `?` of
\* the calls in progress.
VisitMapEnter ==
    /\ ppc = "visit"
    /\ LET frame == Head(pstack) IN
       IF frame.self.in_plural
       THEN /\ outcome' = Err(frame.self, NestedText, None)
            /\ pstack' = <<>>
            /\ ppc' = "done"
       ELSE /\ pstack' = <<[frame EXCEPT !.self = ReplaceInPlural(frame.self)]>>
                             \o Tail(pstack)
            /\ ppc' = "branches"
            /\ UNCHANGED outcome
    /\ UNCHANGED <<seed, map>>
    /\ UNCHANGED <<parseVars, keyVars>>

\* Plurals::from_serde_map (plural.rs): the next branch is deserialized with
\* the seed; a string goes to visit_str, a mapping to visit_map.
FromSerdeMapNext ==
    /\ ppc = "branches"
    /\ LET frame == Head(pstack) IN
       /\ frame.idx <= Len(frame.map)
       /\ LET entry == frame.map[frame.idx] IN
          IF entry.val.kind = "Str"
          THEN LET parsed == New(entry.val.text) IN
               IF parsed.kind = "Panic"
               THEN ppc' = "panicked" /\ UNCHANGED pstack
               ELSE /\ pstack' =
                         <<[frame EXCEPT
                              !.idx = frame.idx + 1,
                              !.branches = Append(frame.branches,
                                  [sel |-> entry.sel, value |-> parsed])]>>
                         \o Tail(pstack)
                    /\ UNCHANGED ppc
          ELSE /\ pstack' = <<[self |-> frame.self, map |-> entry.val.entries,
                               idx |-> 1, branches |-> <<>>]>> \o pstack
               /\ ppc' = "visit"
    /\ UNCHANGED <<seed, map, outcome>>
    /\ UNCHANGED <<parseVars, keyVars>>

\* The end of visit_map: the three fallback tests on the branches.
VisitMapReturn ==
    /\ ppc = "branches"
    /\ LET frame == Head(pstack)
           returned == VisitMapCheck(frame.self, frame.branches)
       IN /\ frame.idx > Len(frame.map)
          /\ IF Len(pstack) = 1 \/ returned.kind = "Err"
             THEN /\ outcome' = returned
                  /\ pstack' = <<>>
                  /\ ppc' = "done"
             ELSE LET caller == pstack[2] IN
                  /\ pstack' =
                        <<[caller EXCEPT
                             !.idx = caller.idx + 1,
                             !.branches = Append(caller.branches,
                                 [sel |-> caller.map[caller.idx].sel,
                                  value |-> returned.val])]>>
                        \o Tail(Tail(pstack))
                  /\ UNCHANGED <<ppc, outcome>>
    /\ UNCHANGED <<seed, map>>
    /\ UNCHANGED <<parseVars, keyVars>>

NextPlural ==
    \/ VisitMapEnter
    \/ FromSerdeMapNext
    \/ VisitMapReturn

SpecPlural == InitPlural /\ [][NextPlural]_vars

(***************************************************************************)
(* Properties of the plural visitor.                                       *)
(***************************************************************************)
FallbackCount(m) == Cardinality({i \in 1..Len(m) : m[i].sel = Fallback})

FallbackBeforeLast(m) == \E i \in 1..Len(m) : i < Len(m) /\ m[i].sel = Fallback

\* The selectors of m do not cover the type they infer.
RequiresFallback(m) ==
    LET present == {m[i].sel : i \in 1..Len(m)} IN
    IF "few" \in present
    THEN ~({"one", "few", "many"} \subseteq present)
    ELSE ~({"one", "many"} \subseteq present)

ThreeRules(m) ==
    /\ ~FallbackBeforeLast(m)
    /\ FallbackCount(m) <= 1
    /\ ~(RequiresFallback(m) /\ FallbackCount(m) = 0)

NoBranchIsMapping(m) == \A i \in 1..Len(m) : m[i].val.kind = "Str"

\* C6 as claimed: a mapping validated outside any other plural yields a
\* Plural node exactly when the three fallback rules hold.
C6_PluralIffThreeRules ==
    (ppc = "done" /\ ~seed.in_plural) =>
        ((outcome.kind = "Ok" /\ outcome.val.kind = "Plural") <=> ThreeRules(map))

\* C6 as amended: a mapping validated outside any other plural, none of whose
\* branches is itself a mapping, yields a Plural node exactly when the three
\* fallback rules hold, and an error otherwise.
C6_PluralIffThreeRulesNoNesting ==
    (ppc = "done" /\ ~seed.in_plural /\ NoBranchIsMapping(map)) =>
        /\ (outcome.kind = "Ok" /\ outcome.val.kind = "Plural") <=> ThreeRules(map)
        /\ outcome.kind = "Err" <=> ~ThreeRules(map)

\* An exhaustive set of concrete selectors with no fallback was accepted.
C6_Witness ==
    /\ ppc = "done"
    /\ ~seed.in_plural
    /\ NoBranchIsMapping(map)
    /\ FallbackCount(map) = 0
    /\ Len(map) >= 2
    /\ outcome.kind = "Ok"

\* C7: a mapping with more than one fallback marker (validated outside any
\* other plural, its branches strings) fails with "multiple fallbacks are not
\* allowed", prefixed by locale, namespace and key.
C7_MultipleFallbacksMessage ==
    (ppc = "done" /\ ~seed.in_plural /\ NoBranchIsMapping(map)
        /\ FallbackCount(map) > 1) =>
        outcome = Err(seed, MultipleText, None)

\* C8: every branch of a mapping is deserialized with in_plural = true; the
\* outermost visit_map returns the nested-plurals error exactly when it was
\* entered with in_plural = true or one of its branches is a mapping, and
\* then no Plural node.
C8_NestedPluralsRejected ==
    /\ ppc = "branches" =>
            \A i \in 1..Len(pstack) : pstack[i].self.in_plural
    /\ ppc = "visit" =>
            /\ \A i \in 2..Len(pstack) : pstack[i].self.in_plural
            /\ Len(pstack) >= 2 => Head(pstack).self.in_plural
    /\ ppc = "done" =>
            /\ outcome = Err(seed, NestedText, None)
                   <=> (seed.in_plural \/ ~NoBranchIsMapping(map))
            /\ (seed.in_plural \/ ~NoBranchIsMapping(map)) => outcome.kind = "Err"

\* A mapping entered outside any plural, one branch of which holds a mapping
\* inside a mapping, was rejected for nesting.
C8_Witness ==
    /\ ppc = "done"
    /\ ~seed.in_plural
    /\ \E i \in 1..Len(map) :
          /\ map[i].val.kind = "Map"
          /\ map[i].val.entries[1].val.kind = "Map"
    /\ outcome = Err(seed, NestedText, None)

(***************************************************************************)
(* get_keys.  The recursion of get_keys_inner is run on an explicit stack: *)
(* "visit" is a call of get_keys_inner on a node, "count" the rest of the  *)
(* Plural arm once plurals.get_keys_inner has returned.                    *)
(***************************************************************************)
\* enum InterpolateKey
IKCount(plural_type) == [kind |-> "Count", of |-> <<plural_type>>]
IKVariable(key) == [kind |-> "Variable", of |-> key]
IKComponent(key) == [kind |-> "Component", of |-> key]

\* keys.get_or_insert_with(HashSet::new).insert(key)
GetOrInsert(ks, key) ==
    Some((IF ks.kind = "None" THEN {} ELSE ks.val) \cup {key})

Visit(node) == [op |-> "visit", node |-> node]
CountOf(node) == [op |-> "count", node |-> node]

\* Plurals::get_keys_inner (plural.rs): get_keys_inner on every branch.
PluralsGetKeysInner(p) == [i \in 1..Len(p.branches) |-> Visit(p.branches[i].value)]

\* get_keys_inner without the recursive call on a Component's inner.
GetKeysInnerSkipsInner(task, ks) ==
    LET node == task.node IN
    IF task.op = "count"
    THEN [keys |-> GetOrInsert(ks, IKCount(GetType(node.plurals))), calls |-> <<>>]
    ELSE CASE node.kind = "String" -> [keys |-> ks, calls |-> <<>>]
           [] node.kind = "Variable" ->
                [keys |-> GetOrInsert(ks, IKVariable(node.key)), calls |-> <<>>]
           [] node.kind = "Component" ->
                [keys |-> GetOrInsert(ks, IKComponent(node.key)), calls |-> <<>>]
           [] node.kind = "Bloc" ->
                [keys |-> ks,
                 calls |-> [i \in 1..Len(node.values) |-> Visit(node.values[i])]]
           [] node.kind = "Plural" ->
                [keys |-> ks,
                 calls |-> PluralsGetKeysInner(node.plurals) \o <<CountOf(node)>>]

\* One call of get_keys_inner up to its recursive calls: the keys afterwards
\* and the calls it makes, in order.
GetKeysInner(task, ks) ==
    LET node == task.node IN
    IF task.op = "count"
    THEN [keys |-> GetOrInsert(ks, IKCount(GetType(node.plurals))), calls |-> <<>>]
    ELSE CASE node.kind = "String" -> [keys |-> ks, calls |-> <<>>]
           [] node.kind = "Variable" ->
                [keys |-> GetOrInsert(ks, IKVariable(node.key)), calls |-> <<>>]
           [] node.kind = "Component" ->
                [keys |-> GetOrInsert(ks, IKComponent(node.key)),
                 calls |-> <<Visit(node.inner)>>]
           [] node.kind = "Bloc" ->
                [keys |-> ks,
                 calls |-> [i \in 1..Len(node.values) |-> Visit(node.values[i])]]
           [] node.kind = "Plural" ->
                [keys |-> ks,
                 calls |-> PluralsGetKeysInner(node.plurals) \o <<CountOf(node)>>]

\* The trees get_keys is run on: every ParsedValue of at most MaxNodes nodes
\* over two keys and the two plural types.
TreeKeys == {<<"a">>, <<"b">>}

PluralOver(plural_type, forest) ==
    PVPlural([type |-> plural_type,
              branches |-> [i \in 1..Len(forest) |->
                               [sel |-> "one", value |-> forest[i]]]])

\* The trees whose root has the forest's trees as children.
TreesOver(forests) ==
    {PVBloc(f) : f \in forests}
        \cup {PluralOver(t, f) : t \in PluralTypes, f \in forests}
        \cup {PVComponent(k, f[1]) : k \in TreeKeys, f \in {g \in forests : Len(g) = 1}}
        \cup (IF <<>> \in forests
              THEN {PVString(<<"x">>)} \cup {PVVariable(k) : k \in TreeKeys}
              ELSE {})

\* The sequences of trees of n nodes in all.
RECURSIVE Forests(_)
Forests(n) ==
    IF n = 0 THEN {<<>>}
    ELSE UNION {{<<t>> \o f : t \in TreesOver(Forests(k - 1)), f \in Forests(n - k)} :
                   k \in 1..n}

KeyTrees == UNION {TreesOver(Forests(n - 1)) : n \in 1..MaxNodes}

InitKeys ==
    /\ tree \in KeyTrees
    /\ kstack = <<>>
    /\ kpc = "start"
    /\ keys = None
    /\ ParseIdle
    /\ PluralIdle

\* get_keys: let mut keys = None; self.get_keys_inner(&mut keys)
GetKeys ==
    /\ kpc = "start"
    /\ keys' = None
    /\ kstack' = <<Visit(tree)>>
    /\ kpc' = "walk"
    /\ UNCHANGED tree
    /\ UNCHANGED <<parseVars, pluralVars>>

\* The next call of get_keys_inner.
GetKeysInnerCall ==
    /\ kpc = "walk"
    /\ kstack # <<>>
    /\ LET after == GetKeysInner(Head(kstack), keys) IN
       /\ keys' = after.keys
       /\ kstack' = after.calls \o Tail(kstack)
    /\ UNCHANGED <<tree, kpc>>
    /\ UNCHANGED <<parseVars, pluralVars>>

\* get_keys returns keys.
GetKeysReturn ==
    /\ kpc = "walk"
    /\ kstack = <<>>
    /\ kpc' = "done"
    /\ UNCHANGED <<tree, kstack, keys>>
    /\ UNCHANGED <<parseVars, pluralVars>>

NextKeys ==
    \/ GetKeys
    \/ GetKeysInnerCall
    \/ GetKeysReturn

SpecKeys == InitKeys /\ [][NextKeys]_vars

(***************************************************************************)
(* Properties of the key collector.                                        *)
(***************************************************************************)
\* The keys of the Variable, Component and Plural nodes of t.
KeysOfNodes(t) ==
    LET nodes == NodesOf(<<t>>) IN
    {IKVariable(n.key) : n \in {m \in nodes : m.kind = "Variable"}}
        \cup {IKComponent(n.key) : n \in {m \in nodes : m.kind = "Component"}}
        \cup {IKCount(n.plurals.type) : n \in {m \in nodes : m.kind = "Plural"}}

\* C9: get_keys returns exactly the Variable, Component and Count keys of the
\* nodes of the tree, at any depth, as a set; it returns None exactly when
\* the tree has no Variable, Component or Plural node, and never an empty
\* set.
C9_KeysOfEveryNode ==
    /\ keys.kind = "Some" => keys.val # {}
    /\ kpc = "done" =>
            /\ keys.kind = "Some" => keys.val = KeysOfNodes(tree)
            /\ keys.kind = "None" <=> KeysOfNodes(tree) = {}

\* A Plural one of whose branches is a Component around a Variable: the three
\* keys were returned.
C9_Witness ==
    /\ kpc = "done"
    /\ tree.kind = "Plural"
    /\ \E n \in NodesOf(<<tree>>) :
          n.kind = "Component" /\ n.inner.kind = "Variable"
    /\ keys.kind = "Some"
    /\ Cardinality(keys.val) = 3

====
